---------------------------- MODULE Spec2Model ----------------------------
(***************************************************************************)
(* A model of the USDA PSD extract-transform-load pipeline (src/main.py,   *)
(* src/data_consts.py).                                                    *)
(*                                                                         *)
(* Data representation                                                     *)
(*   - a text value is a sequence of tokens; the whitespace tokens are the *)
(*     elements of Whitespace, every other token is a run of non-blank     *)
(*     characters ("Oil, Palm" is <<"Oil,", " ", "Palm">>);                *)
(*   - a cell of a data frame is <<>> (NaN / None) or <<v>>;               *)
(*   - a data frame is [columns |-> sequence of names, rows |-> sequence   *)
(*     of records over those names];                                       *)
(*   - a Python Optional is <<>> (None) or <<x>>;                          *)
(*   - Value ranges over integer-valued floats, on which float64 addition  *)
(*     is exact; pandas is taken with object-dtype strings (the dtype      *)
(*     select_dtypes(include=['object']) at main.py:165 expects).          *)
(***************************************************************************)
EXTENDS Integers, Sequences, FiniteSets, TLC

VARIABLES
    pc,                      \* position of the modelled caller
    current_year,            \* pd.Timestamp.now().year seen by __init__
    raw_data,                \* clean_usda_data argument / combined table
    country_codes,           \* reference frames handed to clean_usda_data
    commodity_codes,
    commodity_attributes,
    units_of_measure,
    clean_data,              \* the frame clean_usda_data returned
    error,                   \* the exception that ended the call, or NoError
    agg_data,                \* aggregate_usda_data(clean_data)
    agg_again,               \* aggregate_usda_data(agg_data)
    perm_input,              \* clean_data with its rows permuted
    agg_perm,                \* aggregate_usda_data(perm_input)
    API_KEY,                 \* Constants.API_KEY = os.getenv("USDA_API_KEY")
    api_schema,              \* the shape of the JSON the API serves
    comm_codes_df,           \* main's reference frames (Optional)
    country_codes_df,
    commodity_attributes_df,
    units_of_measure_df,
    requests,                \* every HTTP GET issued so far, in order
    responses,               \* history: what each fetch_USDA_data returned
    combined_data,           \* get_combined_data's list of records
    completed,               \* get_combined_data's progress counter
    failed_requests,         \* history: series requests that returned None
    snapshot,                \* the file data/latest.parquet
    prior_snapshot,          \* history: the file as the run found it
    printed,                 \* the lines written to stdout, in order
    page,                    \* the dashboard page script being run
    page_df,                 \* what load_data returned
    dff,                     \* the rows the balance sheet's mask selects
    table,                   \* the balance table (attribute x market year)
    st_message               \* what st.error / st.warning showed

handler_vars == <<country_codes, commodity_codes, commodity_attributes,
                  units_of_measure, agg_data, agg_again, perm_input, agg_perm>>

ref_vars == <<comm_codes_df, country_codes_df, commodity_attributes_df,
              units_of_measure_df>>

loop_vars == <<requests, responses, combined_data, completed, failed_requests>>

file_vars == <<snapshot, prior_snapshot>>

main_vars == <<API_KEY, api_schema, ref_vars, loop_vars, file_vars, printed>>

dash_vars == <<page, page_df, dff, table, st_message>>

vars == <<pc, current_year, raw_data, clean_data, error, handler_vars,
          main_vars, dash_vars>>

---------------------------------------------------------------------------
(* Bounds of the model *)

MaxRows == 2

\* how many of the PROD_CODE entries a modelled run requests
NumCodes == 2

\* how many series requests of a modelled run may fail
MaxFailed == 1

---------------------------------------------------------------------------
(* Generic helpers *)

None == <<>>

Some(x) == <<x>>

ToSet(s) == {s[i] : i \in 1..Len(s)}

RECURSIVE Flatten(_)
Flatten(ss) == IF ss = <<>> THEN <<>> ELSE Head(ss) \o Flatten(Tail(ss))

Frame(cols, rows) == [columns |-> cols, rows |-> rows]

EmptyFrame == Frame(<<>>, <<>>)

IsEmpty(df) == df.rows = <<>> \/ df.columns = <<>>

\* a table indexed by attribute with one column per market year
EmptyTable == [index |-> <<>>, columns |-> <<>>, cells |-> <<>>]

\* nothing shown by st.error / st.warning
NoMessage == [kind |-> "none", text |-> ""]

---------------------------------------------------------------------------
(* Text *)

Whitespace == {" ", "\t", "\n"}

\* every token of the model, in code point order of its characters
TokenOrder ==
    <<"\t", "\n", " ", "(1000", "(Local)", "Kernel", "MT)", "Meal,", "Oil,",
      "Oilseed,", "Palm", "Production", "Rapeseed", "Soybean", "States",
      "Sunflowerseed", "United", "Wheat", "nan">>

TokenRank(t) == CHOOSE i \in 1..Len(TokenOrder) : TokenOrder[i] = t

RECURSIVE StrLess(_, _)
StrLess(s, t) ==
    IF s = <<>> THEN t # <<>>
    ELSE IF t = <<>> THEN FALSE
    ELSE IF Head(s) = Head(t) THEN StrLess(Tail(s), Tail(t))
    ELSE TokenRank(Head(s)) < TokenRank(Head(t))

RECURSIVE LStrip(_)
LStrip(s) == IF s # <<>> /\ Head(s) \in Whitespace THEN LStrip(Tail(s)) ELSE s

RECURSIVE RStrip(_)
RStrip(s) ==
    IF s # <<>> /\ s[Len(s)] \in Whitespace
    THEN RStrip(SubSeq(s, 1, Len(s) - 1))
    ELSE s

\* str.strip()
StrStrip(s) == RStrip(LStrip(s))

\* str(float('nan'))
NanText == <<"nan">>

---------------------------------------------------------------------------
(* Constants (src/data_consts.py) *)

PROD_CODE ==
    <<"0813600", "0813100", "0813101", "0813500", "4239100",
      "4232000", "4232001", "4236000", "2226000", "2222000",
      "2222001", "2224000", "4243000", "4244000">>

REQ_COLS ==
    <<"CommodityDescription", "CountryName", "MarketYear", "CalendarYear",
      "Month", "AttributeDescription", "UnitDescription", "Value">>

COMM_DESC ==
    << <<"Meal,", " ", "Rapeseed">>,
       <<"Meal,", " ", "Soybean">>,
       <<"Meal,", " ", "Soybean", " ", "(Local)">>,
       <<"Meal,", " ", "Sunflowerseed">>,
       <<"Oil,", " ", "Palm">>,
       <<"Oil,", " ", "Palm", " ", "Kernel">>,
       <<"Oil,", " ", "Rapeseed">>,
       <<"Oil,", " ", "Soybean">>,
       <<"Oil,", " ", "Soybean", " ", "(Local)">>,
       <<"Oil,", " ", "Sunflowerseed">>,
       <<"Oilseed,", " ", "Rapeseed">>,
       <<"Oilseed,", " ", "Soybean">>,
       <<"Oilseed,", " ", "Soybean", " ", "(Local)">>,
       <<"Oilseed,", " ", "Sunflowerseed">> >>

AGG_LIST ==
    <<"CommodityDescription", "CountryName", "MarketYear", "Month",
      "UnitDescription", "AttributeDescription">>

---------------------------------------------------------------------------
(* USDADataHandler.__init__ *)

market_year(now) == now + 1

min_market_year_Window6(now) == market_year(now) - 6

min_market_year(now) == market_year(now) - 5

\* a window that also asks for the market year after the current year
market_years_Inclusive(now) ==
    [i \in 1..(market_year(now) - min_market_year(now) + 1) |->
        min_market_year(now) + i - 1]

market_years(now) ==
    [i \in 1..(market_year(now) - min_market_year(now)) |->
        min_market_year(now) + i - 1]

---------------------------------------------------------------------------
(* pandas operations used by clean_usda_data *)

\* df[cols]
SelectColumns(df, cols) ==
    Frame(cols,
          [i \in 1..Len(df.rows) |-> [c \in ToSet(cols) |-> df.rows[i][c]]])

\* df.rename(columns=mapping); mapping is a function on the names it renames
NewName(mapping, c) == IF c \in DOMAIN mapping THEN mapping[c] ELSE c

RenameColumns(df, mapping) ==
    LET new == [i \in 1..Len(df.columns) |-> NewName(mapping, df.columns[i])]
        old(n) == CHOOSE c \in ToSet(df.columns) : NewName(mapping, c) = n
    IN  Frame(new,
              [i \in 1..Len(df.rows) |->
                  [n \in ToSet(new) |-> df.rows[i][old(n)]]])

\* the rows one left row yields in left.merge(right, on=key, how="left")
MergeRowLeft(l, right, key) ==
    LET others  == ToSet(right.columns) \ {key}
        matches == SelectSeq(right.rows, LAMBDA r : r[key] = l[key])
    IN  IF matches = <<>>
        THEN << [c \in (DOMAIN l) \cup others |->
                    IF c \in DOMAIN l THEN l[c] ELSE None] >>
        ELSE [i \in 1..Len(matches) |->
                [c \in (DOMAIN l) \cup others |->
                    IF c \in DOMAIN l THEN l[c] ELSE matches[i][c]]]

\* left.merge(right, on=key, how="left"); the frames share no column but key
MergeLeft(left, right, key) ==
    Frame(left.columns \o SelectSeq(right.columns, LAMBDA c : c # key),
          Flatten([i \in 1..Len(left.rows) |->
                      MergeRowLeft(left.rows[i], right, key)]))

\* Series.astype(str): NaN becomes the text 'nan'
AsTypeStr(cell) == IF cell = None THEN Some(NanText) ELSE cell

\* Series.astype(int) raises on NaN; Series.astype(float) keeps NaN
IntCols == {"MarketYear", "CalendarYear", "Month"}

StrCols ==
    {"CommodityDescription", "CountryName", "AttributeDescription",
     "UnitDescription"}

CanAsType(df) ==
    \A i \in 1..Len(df.rows) : \A c \in IntCols : df.rows[i][c] # None

AsType(df) ==
    Frame(df.columns,
          [i \in 1..Len(df.rows) |->
              [c \in ToSet(df.columns) |->
                  IF c \in StrCols THEN AsTypeStr(df.rows[i][c])
                  ELSE df.rows[i][c]]])

\* for col in string_cols: clean_data[col] = clean_data[col].str.strip()
StripCell_LeftOnly(cell) == IF cell = None THEN None ELSE Some(LStrip(cell[1]))

StripCell(cell) == IF cell = None THEN None ELSE Some(StrStrip(cell[1]))

StripStringColumns(df) ==
    Frame(df.columns,
          [i \in 1..Len(df.rows) |->
              [c \in ToSet(df.columns) |->
                  IF c \in StrCols THEN StripCell(df.rows[i][c])
                  ELSE df.rows[i][c]]])

\* clean_data[clean_data['CommodityDescription'].isin(required_comm_desc)]
IsTracked(row) ==
    /\ row["CommodityDescription"] # None
    /\ row["CommodityDescription"][1] \in ToSet(COMM_DESC)

FilterCommodities(df) == Frame(df.columns, SelectSeq(df.rows, IsTracked))

\* clean_data[clean_data["MarketYear"] >= self.min_market_year]
FilterMarketYear(df, now) ==
    Frame(df.columns,
          SelectSeq(df.rows,
                    LAMBDA r : r["MarketYear"][1] >= min_market_year(now)))

---------------------------------------------------------------------------
(* USDADataHandler.clean_usda_data: [raised, error, df] *)

\* an exception: its class, its message and the column names the message
\* interpolates
NoError == [type |-> "none", message |-> "", names |-> <<>>]

\* a ValueError whose message leaves the column names out
ValueError_Unnamed(message, names) ==
    [type |-> "ValueError", message |-> message, names |-> <<>>]

ValueError(message, names) ==
    [type |-> "ValueError", message |-> message, names |-> names]

\* pandas' KeyError for labels that are not columns of the frame
KeyError(names) ==
    [type |-> "KeyError", message |-> "{names} not in index", names |-> names]

\* astype(int) on a column holding NaN (a ValueError subclass)
IntCastingNaNError ==
    ValueError("Cannot convert non-finite values (NA or inf) to integer", <<>>)

Returned(df) == [raised |-> FALSE, error |-> NoError, df |-> df]

Raised(e) == [raised |-> TRUE, error |-> e, df |-> EmptyFrame]

JoinCountry(raw, cc) ==
    MergeLeft(raw, SelectColumns(cc, <<"countryCode", "countryName">>),
              "countryCode")

JoinReferences(raw, cc, comm, attr, units) ==
    LET m1 == JoinCountry(raw, cc)
        m2 == MergeLeft(m1,
                  RenameColumns(comm,
                      [c \in {"commodityName"} |-> "CommodityDescription"]),
                  "commodityCode")
        m3 == MergeLeft(m2,
                  RenameColumns(attr,
                      [c \in {"attributeName"} |-> "AttributeDescription"]),
                  "attributeId")
        m4 == MergeLeft(m3,
                  RenameColumns(units,
                      [c \in {"unitDescription"} |-> "UnitDescription"]),
                  "unitId")
    IN  m4

\* the KeyError, if any, of the column selection and of the four merges:
\* a selected label or a join key that is not a column
Absent(df, cols) == SelectSeq(cols, LAMBDA c : c \notin ToSet(df.columns))

JoinError(raw, cc, comm, attr, units) ==
    IF Absent(cc, <<"countryCode", "countryName">>) # <<>>
    THEN KeyError(Absent(cc, <<"countryCode", "countryName">>))
    ELSE IF Absent(raw, <<"countryCode">>) # <<>>
    THEN KeyError(<<"countryCode">>)
    ELSE IF Absent(raw, <<"commodityCode">>) \o Absent(comm, <<"commodityCode">>) # <<>>
    THEN KeyError(<<"commodityCode">>)
    ELSE IF Absent(raw, <<"attributeId">>) \o Absent(attr, <<"attributeId">>) # <<>>
    THEN KeyError(<<"attributeId">>)
    ELSE IF Absent(raw, <<"unitId">>) \o Absent(units, <<"unitId">>) # <<>>
    THEN KeyError(<<"unitId">>)
    ELSE NoError

CanonicalNames ==
    [c \in {"commodityCode", "countryName", "marketYear", "calendarYear",
            "month", "value"} |->
        CASE c = "commodityCode" -> "CommodityCode"
          [] c = "countryName"   -> "CountryName"
          [] c = "marketYear"    -> "MarketYear"
          [] c = "calendarYear"  -> "CalendarYear"
          [] c = "month"         -> "Month"
          [] c = "value"         -> "Value"]

\* main.py:116-173, the statements after the `raw_data.empty` return
CleanRows(raw, cc, comm, attr, units, now) ==
    IF JoinError(raw, cc, comm, attr, units) # NoError
    THEN Raised(JoinError(raw, cc, comm, attr, units))
    ELSE
    LET merged  == RenameColumns(JoinReferences(raw, cc, comm, attr, units),
                                 CanonicalNames)
        missing == SelectSeq(REQ_COLS, LAMBDA c : c \notin ToSet(merged.columns))
        kept    == SelectColumns(merged, REQ_COLS)
    IN  IF missing # <<>> THEN Raised(ValueError("Missing required columns: {missing_cols}", missing))
        ELSE IF ~CanAsType(kept) THEN Raised(IntCastingNaNError)
        ELSE Returned(
                FilterMarketYear(
                    FilterCommodities(StripStringColumns(AsType(kept))), now))

\* a cleaner without the `raw_data.empty` return of main.py:113-114
clean_usda_data_NoEmptyReturn(raw, cc, comm, attr, units, now) ==
    CleanRows(raw, cc, comm, attr, units, now)

clean_usda_data(raw, cc, comm, attr, units, now) ==
    IF IsEmpty(raw) THEN Returned(Frame(REQ_COLS, <<>>))
    ELSE CleanRows(raw, cc, comm, attr, units, now)

---------------------------------------------------------------------------
(* USDADataHandler.aggregate_usda_data *)

KeyOf(row) == [k \in 1..Len(AGG_LIST) |-> row[AGG_LIST[k]]]

CellLess(col, a, b) ==
    IF col \in IntCols THEN a[1] < b[1] ELSE StrLess(a[1], b[1])

\* tuple order of the group keys
KeyLess(x, y) ==
    \E k \in 1..Len(AGG_LIST) :
        /\ \A j \in 1..(k - 1) : x[j] = y[j]
        /\ x[k] # y[k]
        /\ CellLess(AGG_LIST[k], x[k], y[k])

RECURSIVE SortKeys(_)
SortKeys(S) ==
    IF S = {} THEN <<>>
    ELSE LET m == CHOOSE x \in S : \A y \in S \ {x} : KeyLess(x, y)
         IN  <<m>> \o SortKeys(S \ {m})

\* GroupBy.sum(): NaN is skipped, an all-NaN group sums to 0
RECURSIVE GroupSum(_)
GroupFirst(cells) ==
    LET present == SelectSeq(cells, LAMBDA c : c # None)
    IN  IF present = <<>> THEN None ELSE Head(present)

GroupLast(cells) ==
    LET present == SelectSeq(cells, LAMBDA c : c # None)
    IN  IF present = <<>> THEN None ELSE present[Len(present)]

GroupCount(cells) == Some(Len(SelectSeq(cells, LAMBDA c : c # None)))

GroupSum(cells) ==
    IF cells = <<>> THEN Some(0)
    ELSE LET rest == GroupSum(Tail(cells))
         IN  IF Head(cells) = None THEN rest
             ELSE Some(Head(cells)[1] + rest[1])

\* clean_data.groupby(agg_list)['Value'].sum().reset_index()
aggregate_usda_data(df) ==
    LET keyed == SelectSeq(df.rows,
                           LAMBDA r : \A k \in 1..Len(AGG_LIST) :
                                          r[AGG_LIST[k]] # None)
        keys  == SortKeys({KeyOf(keyed[i]) : i \in 1..Len(keyed)})
        group(key) == SelectSeq(keyed, LAMBDA r : KeyOf(r) = key)
        values(key) == [i \in 1..Len(group(key)) |-> group(key)[i]["Value"]]
        out   == AGG_LIST \o <<"Value">>
    IN  Frame(out,
              [g \in 1..Len(keys) |->
                  [c \in ToSet(out) |->
                      IF c = "Value" THEN GroupSum(values(keys[g]))
                      ELSE keys[g][CHOOSE k \in 1..Len(AGG_LIST) :
                                       AGG_LIST[k] = c]]])

---------------------------------------------------------------------------
(* Inputs of the handler calls *)

RawCols ==
    <<"commodityCode", "countryCode", "attributeId", "unitId", "marketYear",
      "calendarYear", "month", "value">>

\* one record of GET .../commodity/{code}/country/all/year/{year}
BaseRow ==
    [commodityCode |-> Some("4243000"), countryCode |-> Some("US"),
     attributeId |-> Some(28), unitId |-> Some(8),
     marketYear |-> Some(2022), calendarYear |-> Some(2022),
     month |-> Some(1), value |-> Some(7)]

\* the records that differ from BaseRow in at most one field
RawRows ==
    {r \in [commodityCode : {Some("4243000"), Some("4244000"),
                             Some("0410000"), Some("9999999")},
            countryCode   : {Some("US"), Some("ZZ")},
            attributeId   : {Some(28), Some(999)},
            unitId        : {Some(8), Some(99)},
            marketYear    : {Some(2022), Some(2021)},
            calendarYear  : {Some(2022), Some(2023)},
            month         : {Some(1), Some(2), None},
            value         : {Some(7), Some(13), None}] :
        Cardinality({f \in DOMAIN r : r[f] # BaseRow[f]}) <= 1}

\* pd.DataFrame(records)
DataFrameOf(records) ==
    IF records = <<>> THEN EmptyFrame
    ELSE LET cols == SelectSeq(RawCols,
                         LAMBDA c : \E i \in 1..Len(records) :
                                        c \in DOMAIN records[i])
         IN  Frame(cols,
                   [i \in 1..Len(records) |->
                       [c \in ToSet(cols) |->
                           IF c \in DOMAIN records[i] THEN records[i][c]
                           ELSE None]])

RawTables ==
    {DataFrameOf(rows) : rows \in UNION {[1..n -> RawRows] : n \in 0..MaxRows}}

CommodityRef ==
    Frame(<<"commodityCode", "commodityName">>,
          << [commodityCode |-> Some("4243000"),
              commodityName |-> Some(<<"Oil,", " ", "Palm">>)],
             [commodityCode |-> Some("4244000"),
              commodityName |-> Some(<<"Oil,", " ", "Palm", " ", "Kernel", " ">>)],
             [commodityCode |-> Some("0410000"),
              commodityName |-> Some(<<"Wheat">>)],
             [commodityCode |-> Some("0813600"),
              commodityName |-> Some(<<"Meal,", " ", "Rapeseed">>)],
             [commodityCode |-> Some("0813100"),
              commodityName |-> Some(<<"Meal,", " ", "Soybean", " ">>)],
             [commodityCode |-> Some("0813101"),
              commodityName |-> Some(<<"Meal,", " ", "Soybean", " ", "(Local)">>)] >>)

CountryRef ==
    Frame(<<"countryCode", "countryName", "regionCode">>,
          << [countryCode |-> Some("US"),
              countryName |-> Some(<<"United", " ", "States", " ">>),
              regionCode  |-> Some("R00")] >>)

AttributeRef ==
    Frame(<<"attributeId", "attributeName">>,
          << [attributeId |-> Some(28),
              attributeName |-> Some(<<" ", "Production">>)] >>)

UnitRef ==
    Frame(<<"unitId", "unitDescription">>,
          << [unitId |-> Some(8),
              unitDescription |-> Some(<<"(1000", " ", "MT)", "\t">>)] >>)

CurrentYears == {2025, 2026}

---------------------------------------------------------------------------
(* SpecHandler: clean_usda_data and aggregate_usda_data applied to inputs   *)
(* drawn from the sets above                                                *)

RowOrders(n) ==
    {p \in [1..n -> 1..n] : \A i, j \in 1..n : p[i] = p[j] => i = j}

InitHandler ==
    /\ pc = "input"
    /\ current_year \in CurrentYears
    /\ raw_data \in RawTables
    /\ country_codes = CountryRef
    /\ commodity_codes = CommodityRef
    /\ commodity_attributes = AttributeRef
    /\ units_of_measure = UnitRef
    /\ clean_data = EmptyFrame
    /\ error = NoError
    /\ agg_data = EmptyFrame
    /\ agg_again = EmptyFrame
    /\ perm_input = EmptyFrame
    /\ agg_perm = EmptyFrame
    /\ API_KEY = None
    /\ api_schema = "documented"
    /\ responses = <<>>
    /\ printed = <<>>
    /\ page = "none"
    /\ page_df = EmptyFrame
    /\ dff = EmptyFrame
    /\ table = EmptyTable
    /\ st_message = NoMessage
    /\ comm_codes_df = None
    /\ country_codes_df = None
    /\ commodity_attributes_df = None
    /\ units_of_measure_df = None
    /\ requests = <<>>
    /\ combined_data = <<>>
    /\ completed = 0
    /\ failed_requests = 0
    /\ snapshot = None
    /\ prior_snapshot = None

CallClean ==
    /\ pc = "input"
    /\ LET r == clean_usda_data(raw_data, country_codes, commodity_codes,
                                commodity_attributes, units_of_measure,
                                current_year)
       IN  /\ pc' = IF r.raised THEN "raised" ELSE "cleaned"
           /\ clean_data' = r.df
           /\ error' = r.error
    /\ UNCHANGED <<current_year, raw_data, country_codes, commodity_codes,
                   commodity_attributes, units_of_measure, agg_data,
                   agg_again, perm_input, agg_perm, main_vars, dash_vars>>

CallAggregate ==
    /\ pc = "cleaned"
    /\ agg_data' = aggregate_usda_data(clean_data)
    /\ pc' = "aggregated"
    /\ UNCHANGED <<current_year, raw_data, country_codes, commodity_codes,
                   commodity_attributes, units_of_measure, clean_data, error,
                   agg_again, perm_input, agg_perm, main_vars, dash_vars>>

CallAggregateAgain ==
    /\ pc = "aggregated"
    /\ agg_again' = aggregate_usda_data(agg_data)
    /\ pc' = "reaggregated"
    /\ UNCHANGED <<current_year, raw_data, country_codes, commodity_codes,
                   commodity_attributes, units_of_measure, clean_data, error,
                   agg_data, perm_input, agg_perm, main_vars, dash_vars>>

CallAggregatePermuted ==
    /\ pc = "aggregated"
    /\ \E p \in RowOrders(Len(clean_data.rows)) :
          LET permuted == Frame(clean_data.columns,
                                [i \in 1..Len(clean_data.rows) |->
                                    clean_data.rows[p[i]]])
          IN  /\ perm_input' = permuted
              /\ agg_perm' = aggregate_usda_data(permuted)
    /\ pc' = "permuted"
    /\ UNCHANGED <<current_year, raw_data, country_codes, commodity_codes,
                   commodity_attributes, units_of_measure, clean_data, error,
                   agg_data, agg_again, main_vars, dash_vars>>

NextHandler ==
    \/ CallClean
    \/ CallAggregate
    \/ CallAggregateAgain
    \/ CallAggregatePermuted

SpecHandler == InitHandler /\ [][NextHandler]_vars

---------------------------------------------------------------------------
(* Spec: one run of `python main.py` (main and the __main__ block)         *)

\* bool(x) of an Optional[str]
Truthy_NotNone(key) == key # None

Truthy(key) == key # None /\ key[1] # ""

ApiKeys == {None, Some(""), Some("k3y")}

CredentialError ==
    ValueError("USDA_API_KEY environment variable is not set.", <<>>)

ReferenceError == ValueError("Failed to fetch required reference data.", <<>>)

NoDataError == ValueError("No data was fetched from USDA API.", <<>>)

\* one print(...) call: the text of the f-string and what it interpolates
Line(text, code, nums) == [text |-> text, code |-> code, nums |-> nums]

\* the file data/latest.parquet left by an earlier run
OldSnapshot ==
    Some([complete |-> TRUE,
          data |-> Frame(REQ_COLS,
              << [CommodityDescription |-> Some(<<"Oil,", " ", "Palm">>),
                  CountryName |-> Some(<<"United", " ", "States">>),
                  MarketYear |-> Some(2021), CalendarYear |-> Some(2021),
                  Month |-> Some(1),
                  AttributeDescription |-> Some(<<"Production">>),
                  UnitDescription |-> Some(<<"(1000", " ", "MT)">>),
                  Value |-> Some(13)] >>)])

\* self.product_codes, cut to its first NumCodes entries
product_codes == SubSeq(PROD_CODE, 1, NumCodes)

total_requests(now) == Len(product_codes) * Len(market_years(now))

\* the (product_code, year) pair of the k-th iteration (k from 0) of the
\* nested loops of get_combined_data
PairOf(k, now) ==
    [code |-> product_codes[(k \div Len(market_years(now))) + 1],
     year |-> market_years(now)[(k % Len(market_years(now))) + 1]]

\* what the API serves during the run: the documented JSON, or a payload
\* in which one table lacks a field, the commodity list covers other codes,
\* or no pair has any record
ApiSchemas ==
    {"documented", "commodities_other_codes", "commodities_no_name",
     "countries_no_name", "attributes_no_name", "units_no_name",
     "series_no_value", "series_no_records"}

WithoutColumn(df, col) ==
    SelectColumns(df, SelectSeq(df.columns, LAMBDA c : c # col))

\* the JSON of the four reference endpoints
CommodityTable(schema) ==
    CASE schema = "commodities_no_name" ->
            WithoutColumn(CommodityRef, "commodityName")
      [] schema = "commodities_other_codes" ->
            Frame(CommodityRef.columns,
                  SelectSeq(CommodityRef.rows,
                      LAMBDA r : r.commodityCode \notin
                                     {Some(c) : c \in ToSet(product_codes)}))
      [] OTHER -> CommodityRef

CountryTable(schema) ==
    IF schema = "countries_no_name"
    THEN WithoutColumn(CountryRef, "countryName") ELSE CountryRef

AttributeTable(schema) ==
    IF schema = "attributes_no_name"
    THEN WithoutColumn(AttributeRef, "attributeName") ELSE AttributeRef

UnitTable(schema) ==
    IF schema = "units_no_name"
    THEN WithoutColumn(UnitRef, "unitDescription") ELSE UnitRef

\* what a reference fetch returns: None on RequestException / ValueError,
\* else pd.DataFrame(response.json())
ReferenceResults(ref) == {None, Some(EmptyFrame), Some(ref)}

\* the records the API holds for a pair
SeriesRecords(code, year, schema) ==
    LET rec == [commodityCode |-> Some(code), countryCode |-> Some("US"),
                attributeId |-> Some(28), unitId |-> Some(8),
                marketYear |-> Some(year), calendarYear |-> Some(year),
                month |-> Some(1), value |-> Some(7)]
    IN  CASE schema = "series_no_value" ->
                << [f \in DOMAIN rec \ {"value"} |-> rec[f]] >>
          [] schema = "series_no_records" -> <<>>
          [] OTHER -> << rec >>

\* what fetch_USDA_data(code, year) may return: None on a failed request,
\* the records of the pair, or an empty list where the API has no coverage
\* (modelled for the first year of the window)
SeriesResults(code, year, now, failed, schema) ==
    {Some(SeriesRecords(code, year, schema))}
        \cup (IF failed < MaxFailed THEN {None} ELSE {})
        \cup (IF year = min_market_year(now) THEN {Some(<<>>)} ELSE {})

ReferenceRequest(name) == [endpoint |-> name, code |-> "", year |-> 0]

SeriesRequest(code, year) == [endpoint |-> "commodity", code |-> code, year |-> year]

Init ==
    /\ pc = "main"
    /\ current_year = 2025
    /\ API_KEY \in ApiKeys
    /\ api_schema \in ApiSchemas
    /\ prior_snapshot \in {None, OldSnapshot}
    /\ snapshot = prior_snapshot
    /\ comm_codes_df = None
    /\ country_codes_df = None
    /\ commodity_attributes_df = None
    /\ units_of_measure_df = None
    /\ requests = <<>>
    /\ responses = <<>>
    /\ combined_data = <<>>
    /\ completed = 0
    /\ failed_requests = 0
    /\ printed = <<>>
    /\ page = "none"
    /\ page_df = EmptyFrame
    /\ dff = EmptyFrame
    /\ table = EmptyTable
    /\ st_message = NoMessage
    /\ raw_data = EmptyFrame
    /\ clean_data = EmptyFrame
    /\ error = NoError
    /\ country_codes = EmptyFrame
    /\ commodity_codes = EmptyFrame
    /\ commodity_attributes = EmptyFrame
    /\ units_of_measure = EmptyFrame
    /\ agg_data = EmptyFrame
    /\ agg_again = EmptyFrame
    /\ perm_input = EmptyFrame
    /\ agg_perm = EmptyFrame

\* an exception leaves main; the __main__ block prints it and re-raises
\* (main.py:261-263)
MainRaises(e, shown) ==
    /\ pc' = "failed"
    /\ error' = e
    /\ printed' = shown \o <<Line("Error in main execution: {e}", "", <<>>)>>

\* main.py:215-224
MainCheckApiKey ==
    /\ pc = "main"
    /\ IF Truthy(API_KEY)
       THEN pc' = "fetch_commodity_codes" /\ UNCHANGED <<error, printed>>
       ELSE MainRaises(CredentialError, printed)
    /\ UNCHANGED <<current_year, raw_data, clean_data, handler_vars, dash_vars, API_KEY,
                   api_schema, ref_vars, loop_vars, file_vars>>

\* the print of a reference fetch that caught an exception
\* (main.py:38, 51, 64, 77)
FetchPrints(shown, result, text) ==
    IF result = None THEN shown \o <<Line(text, "", <<>>)>> ELSE shown

\* main.py:227-228
FetchCommodityCodes ==
    /\ pc = "fetch_commodity_codes"
    /\ requests' = Append(requests, ReferenceRequest("commodities"))
    /\ comm_codes_df' \in ReferenceResults(CommodityTable(api_schema))
    /\ printed' =
           FetchPrints(printed \o <<Line("Fetching reference data...", "", <<>>)>>,
                       comm_codes_df', "Failed to fetch commodity codes: {e}")
    /\ pc' = "fetch_country_codes"
    /\ UNCHANGED <<current_year, raw_data, clean_data, error, handler_vars, dash_vars,
                   API_KEY, api_schema, country_codes_df,
                   commodity_attributes_df, units_of_measure_df, responses,
                   combined_data, completed, failed_requests, file_vars>>

\* main.py:229
FetchCountryCodes ==
    /\ pc = "fetch_country_codes"
    /\ requests' = Append(requests, ReferenceRequest("countries"))
    /\ country_codes_df' \in ReferenceResults(CountryTable(api_schema))
    /\ printed' = FetchPrints(printed, country_codes_df',
                              "Failed to fetch country codes: {e}")
    /\ pc' = "fetch_commodity_attributes"
    /\ UNCHANGED <<current_year, raw_data, clean_data, error, handler_vars, dash_vars,
                   API_KEY, api_schema, comm_codes_df,
                   commodity_attributes_df, units_of_measure_df, responses,
                   combined_data, completed, failed_requests, file_vars>>

\* main.py:230
FetchCommodityAttributes ==
    /\ pc = "fetch_commodity_attributes"
    /\ requests' = Append(requests, ReferenceRequest("commodityAttributes"))
    /\ commodity_attributes_df' \in ReferenceResults(AttributeTable(api_schema))
    /\ printed' = FetchPrints(printed, commodity_attributes_df',
                              "Failed to fetch commodity attributes: {e}")
    /\ pc' = "fetch_units_of_measure"
    /\ UNCHANGED <<current_year, raw_data, clean_data, error, handler_vars, dash_vars,
                   API_KEY, api_schema, comm_codes_df, country_codes_df,
                   units_of_measure_df, responses, combined_data, completed,
                   failed_requests, file_vars>>

\* main.py:231
FetchUnitsOfMeasure ==
    /\ pc = "fetch_units_of_measure"
    /\ requests' = Append(requests, ReferenceRequest("unitsOfMeasure"))
    /\ units_of_measure_df' \in ReferenceResults(UnitTable(api_schema))
    /\ printed' = FetchPrints(printed, units_of_measure_df',
                              "Failed to fetch units of measure: {e}")
    /\ pc' = "validate"
    /\ UNCHANGED <<current_year, raw_data, clean_data, error, handler_vars, dash_vars,
                   API_KEY, api_schema, comm_codes_df, country_codes_df,
                   commodity_attributes_df, responses, combined_data,
                   completed, failed_requests, file_vars>>

\* df is None or df.empty
RefInvalid_NoneOnly(d) == d = None

RefInvalid(d) == d = None \/ IsEmpty(d[1])

\* main.py:233-236
MainValidateReferenceData ==
    /\ pc = "validate"
    /\ IF \E d \in {comm_codes_df, country_codes_df, commodity_attributes_df,
                    units_of_measure_df} : RefInvalid(d)
       THEN MainRaises(ReferenceError, printed)
       ELSE pc' = "get_combined_data" /\ UNCHANGED <<error, printed>>
    /\ UNCHANGED <<current_year, raw_data, clean_data, handler_vars, dash_vars, API_KEY,
                   api_schema, ref_vars, loop_vars, file_vars>>

\* a loop in which a failed request discards what was collected before it
Extend_DropOnFailure(combined, data) ==
    IF data = None THEN <<>>
    ELSE IF data[1] # <<>> THEN combined \o data[1] ELSE combined

\* `if data: combined_data.extend(data)` (main.py:197-198)
Extend(combined, data) ==
    IF data # None /\ data[1] # <<>> THEN combined \o data[1] ELSE combined

\* what one iteration of get_combined_data prints: the failure line of
\* fetch_USDA_data (main.py:95) and the progress line (main.py:200-201)
IterationPrints(pair, data, done, total) ==
    (IF data = None
     THEN <<Line("Failed to fetch data for commodity code {commodity_code} and market year {market_year}: {e}",
                 pair.code, <<pair.year>>)>>
     ELSE <<>>)
    \o (IF done % 10 = 0
        THEN <<Line("Progress: {completed}/{total_requests} requests completed",
                    "", <<done, total>>)>>
        ELSE <<>>)

\* one iteration of the loops of get_combined_data (main.py:194-201)
FetchUSDAData ==
    /\ pc = "get_combined_data"
    /\ completed < total_requests(current_year)
    /\ LET pair == PairOf(completed, current_year)
       IN  /\ requests' = Append(requests, SeriesRequest(pair.code, pair.year))
           /\ \E data \in SeriesResults(pair.code, pair.year, current_year,
                                        failed_requests, api_schema) :
                 /\ responses' = Append(responses, data)
                 /\ combined_data' = Extend(combined_data, data)
                 /\ failed_requests' =
                        IF data = None THEN failed_requests + 1
                        ELSE failed_requests
                 /\ printed' = printed \o
                        IterationPrints(pair, data, completed + 1,
                                        total_requests(current_year))
    /\ completed' = completed + 1
    /\ UNCHANGED <<pc, current_year, raw_data, clean_data, error, handler_vars, dash_vars,
                   API_KEY, api_schema, ref_vars, file_vars>>

\* get_combined_data returns pd.DataFrame(combined_data); main.py:203-204,
\* 239-242
MainCheckCombined ==
    /\ pc = "get_combined_data"
    /\ completed = total_requests(current_year)
    /\ raw_data' = DataFrameOf(combined_data)
    /\ LET shown == printed \o
               <<Line("Data Fetched Successfully: {len(combined_data)} records",
                      "", <<Len(combined_data)>>)>>
       IN  IF IsEmpty(raw_data')
           THEN MainRaises(NoDataError, shown)
           ELSE pc' = "clean" /\ error' = error /\ printed' = shown
    /\ UNCHANGED <<current_year, clean_data, handler_vars, dash_vars, API_KEY,
                   api_schema, ref_vars, loop_vars, file_vars>>

\* main.py:244-253
MainClean ==
    /\ pc = "clean"
    /\ LET r == clean_usda_data(raw_data, country_codes_df[1], comm_codes_df[1],
                                commodity_attributes_df[1],
                                units_of_measure_df[1], current_year)
           shown == printed \o <<Line("Cleaning USDA data...", "", <<>>)>>
       IN  /\ clean_data' = r.df
           /\ IF r.raised
              THEN MainRaises(r.error, shown)
              ELSE pc' = "to_parquet" /\ error' = r.error /\ printed' = shown
    /\ UNCHANGED <<current_year, raw_data, handler_vars, dash_vars, API_KEY, api_schema,
                   ref_vars, loop_vars, file_vars>>

\* df.to_parquet("data/latest.parquet") opens the destination for writing:
\* the file exists, holding no complete table yet (main.py:259)
ToParquetOpen ==
    /\ pc = "to_parquet"
    /\ snapshot' = Some([complete |-> FALSE, data |-> EmptyFrame])
    /\ pc' = "writing"
    /\ UNCHANGED <<current_year, raw_data, clean_data, error, handler_vars, dash_vars,
                   API_KEY, api_schema, ref_vars, loop_vars, prior_snapshot,
                   printed>>

\* the writer finishes and closes the file (main.py:259-260)
ToParquetClose ==
    /\ pc = "writing"
    /\ snapshot' = Some([complete |-> TRUE, data |-> clean_data])
    /\ pc' = "saved"
    /\ printed' = printed \o
           <<Line("Data saved successfully: {len(df)} records", "",
                  <<Len(clean_data.rows)>>)>>
    /\ UNCHANGED <<current_year, raw_data, clean_data, error, handler_vars, dash_vars,
                   API_KEY, api_schema, ref_vars, loop_vars, prior_snapshot>>

\* the caller stops the process (SIGINT, SIGKILL, scheduler timeout) at
\* whatever statement it has reached; nothing in main.py:256-263 runs after
AbortRun ==
    /\ pc \notin {"failed", "saved", "aborted"}
    /\ pc' = "aborted"
    /\ UNCHANGED <<current_year, raw_data, clean_data, error, handler_vars, dash_vars,
                   main_vars>>

Next ==
    \/ MainCheckApiKey
    \/ FetchCommodityCodes
    \/ FetchCountryCodes
    \/ FetchCommodityAttributes
    \/ FetchUnitsOfMeasure
    \/ MainValidateReferenceData
    \/ FetchUSDAData
    \/ MainCheckCombined
    \/ MainClean
    \/ ToParquetOpen
    \/ ToParquetClose
    \/ AbortRun

Spec == Init /\ [][Next]_vars

---------------------------------------------------------------------------
(* SpecDashboard: one rerun of a Streamlit page script over the file       *)
(* data/latest.parquet: load_data of the three pages, and the balance      *)
(* table of pages/Balance_Sheet.py                                         *)

\* a text without inner structure
Txt(s) == <<s>>

Pages == {"streamlit_app", "Balance_Sheet", "Chart_Builder"}

\* the columns load_data reads on each page
LoadColumns(p) ==
    IF p = "Balance_Sheet"
    THEN <<"CommodityDescription", "UnitDescription", "MarketYear">>
    ELSE <<"MarketYear", "CommodityDescription", "AttributeDescription",
           "CountryName", "UnitDescription">>

FileNotFoundError ==
    [type |-> "FileNotFoundError",
     message |-> "No such file or directory: 'data/latest.parquet'",
     names |-> <<>>]

\* pyarrow's error for a file that is not a complete Parquet file
ArrowInvalid ==
    [type |-> "ArrowInvalid",
     message |-> "Parquet magic bytes not found in footer",
     names |-> <<>>]

StError(text) == [kind |-> "error", text |-> text]

StWarning(text) == [kind |-> "warning", text |-> text]

\* df["CommodityDescription"].str.split(",").str[0].str.strip()
ProductTypeOf(cell) ==
    IF cell = None \/ cell[1] = <<>> THEN cell
    ELSE CASE cell[1][1] = "Oil,"     -> Some(Txt("Oil"))
           [] cell[1][1] = "Meal,"    -> Some(Txt("Meal"))
           [] cell[1][1] = "Oilseed," -> Some(Txt("Oilseed"))
           [] OTHER                   -> Some(<<cell[1][1]>>)

\* the body of the try block of load_data: [raised, error, df]
ReadParquet(p, file) ==
    IF file = None THEN Raised(FileNotFoundError)
    ELSE IF ~file[1].complete THEN Raised(ArrowInvalid)
    ELSE IF Absent(file[1].data, LoadColumns(p)) # <<>>
    THEN Raised(KeyError(<<Head(Absent(file[1].data, LoadColumns(p)))>>))
    ELSE IF \E i \in 1..Len(file[1].data.rows) :
                file[1].data.rows[i]["MarketYear"] = None
    THEN Raised(IntCastingNaNError)
    ELSE LET d == file[1].data
             strs == ToSet(LoadColumns(p)) \ {"MarketYear"}
         IN  Returned(
               Frame(IF p = "Balance_Sheet"
                     THEN Append(d.columns, "ProductType") ELSE d.columns,
                     [i \in 1..Len(d.rows) |->
                        [c \in ToSet(d.columns) \cup
                               (IF p = "Balance_Sheet" THEN {"ProductType"}
                                ELSE {}) |->
                           IF c = "ProductType"
                           THEN ProductTypeOf(
                                    StripCell(AsTypeStr(
                                        d.rows[i]["CommodityDescription"])))
                           ELSE IF c \in strs
                           THEN StripCell(AsTypeStr(d.rows[i][c]))
                           ELSE d.rows[i][c]]]))

\* whether load_data wraps its body in try/except (streamlit_app.py:13-26,
\* Balance_Sheet.py:11-24; Chart_Builder.py:11-17 has none)
CatchesLoadErrors(p) == p \in {"streamlit_app", "Balance_Sheet"}

LoadErrorMessage(e) ==
    IF e.type = "FileNotFoundError"
    THEN StError("Data file not found. Please run main.py to generate data/latest.parquet")
    ELSE StError("Error loading data: {e}")

\* df["UnitDescription"].str.contains(r"1000\s*MT", case=False, na=False)
Contains1000MT(cell) ==
    /\ cell # None
    /\ \E i \in 1..Len(cell[1]) :
          /\ cell[1][i] = "(1000"
          /\ \E j \in (i + 1)..Len(cell[1]) :
                /\ cell[1][j] = "MT)"
                /\ \A k \in (i + 1)..(j - 1) : cell[1][k] \in Whitespace

ROW_ORDER ==
    <<Txt("Beginning Stocks"), Txt("Production"), Txt("Imports"),
      Txt("Total Supply"), Txt("Exports"), Txt("Domestic Consumption"),
      Txt("Total Use"), Txt("Ending Stocks"), Txt("Total Distribution"),
      Txt("Stock-to-Use (%)")>>

DomConsParts ==
    <<Txt("Food Use Dom. Cons."), Txt("Industrial Dom. Cons."),
      Txt("Feed Waste Dom. Cons."), Txt("Feed Dom. Cons.")>>

\* the attribute names of the modelled files, in the order of a sorted index
AttributeOrder ==
    <<Txt("Area Harvested"), Txt("Domestic Consumption"),
      Txt("Ending Stocks"), Txt("Exports"), Txt("Feed Dom. Cons."),
      Txt("Food Use Dom. Cons."), Txt("Industrial Dom. Cons."),
      Txt("Production"), Txt("Total Distribution"), Txt("Total Dom. Cons."),
      Txt("Total Use")>>

HasRow(t, a) == a \in ToSet(t.index)

\* table.loc[a] = row
SetRow(t, a, row) ==
    [index |-> IF HasRow(t, a) THEN t.index ELSE Append(t.index, a),
     columns |-> t.columns,
     cells |-> [b \in ToSet(t.index) \cup {a} |->
                   IF b = a THEN row ELSE t.cells[b]]]

RECURSIVE SumSkipNa(_)
\* Series.sum(): missing values are skipped, the empty sum is 0
SumSkipNa(cs) ==
    IF cs = <<>> THEN 0
    ELSE (IF Head(cs) = None THEN 0 ELSE Head(cs)[1]) + SumSkipNa(Tail(cs))

\* dff.groupby(["AttributeDescription", "MarketYear"])["Value"].sum()
\*    .pivot(index="AttributeDescription", columns="MarketYear", values="Value")
Pivot(d) ==
    LET keyed == SelectSeq(d.rows,
                     LAMBDA r : r["AttributeDescription"] # None
                                    /\ r["MarketYear"] # None)
        attrs == {keyed[i]["AttributeDescription"][1] : i \in 1..Len(keyed)}
        years == {keyed[i]["MarketYear"][1] : i \in 1..Len(keyed)}
        lo    == CHOOSE y \in years : \A z \in years : y <= z
        hi    == CHOOSE y \in years : \A z \in years : z <= y
        group(a, y) ==
            SelectSeq(keyed,
                LAMBDA r : r["AttributeDescription"] = Some(a)
                               /\ r["MarketYear"] = Some(y))
        values(rs) == [i \in 1..Len(rs) |-> rs[i]["Value"]]
    IN  [index |-> SelectSeq(AttributeOrder, LAMBDA a : a \in attrs),
         columns |-> SelectSeq([i \in 1..(hi - lo + 1) |-> lo + i - 1],
                               LAMBDA y : y \in years),
         cells |-> [a \in attrs |-> [y \in years |->
                       IF group(a, y) = <<>> THEN None
                       ELSE Some(SumSkipNa(values(group(a, y))))]]]

\* Series + Series: a missing operand gives a missing sum
AddCells(x, y) == IF x = None \/ y = None THEN None ELSE Some(x[1] + y[1])

AddRows(t, a, b) ==
    [y \in ToSet(t.columns) |-> AddCells(t.cells[a][y], t.cells[b][y])]

\* a row sum in which a missing component makes the year missing
SumRows_NaPropagates(t, parts) ==
    [y \in ToSet(t.columns) |->
        IF \E i \in 1..Len(parts) : t.cells[parts[i]][y] = None THEN None
        ELSE Some(SumSkipNa([i \in 1..Len(parts) |-> t.cells[parts[i]][y]]))]

\* table.loc[parts].sum(axis=0)
SumRows(t, parts) ==
    [y \in ToSet(t.columns) |->
        Some(SumSkipNa([i \in 1..Len(parts) |-> t.cells[parts[i]][y]]))]

\* Balance_Sheet.py:134-141
WithDomesticConsumption(t) ==
    IF HasRow(t, Txt("Domestic Consumption")) THEN t
    ELSE IF HasRow(t, Txt("Total Dom. Cons."))
    THEN SetRow(t, Txt("Domestic Consumption"), t.cells[Txt("Total Dom. Cons.")])
    ELSE LET parts == SelectSeq(DomConsParts, LAMBDA a : HasRow(t, a))
         IN  IF parts # <<>>
             THEN SetRow(t, Txt("Domestic Consumption"), SumRows(t, parts))
             ELSE t

\* Balance_Sheet.py:145-147
WithTotalUse(t) ==
    IF HasRow(t, Txt("Total Use")) THEN t
    ELSE IF HasRow(t, Txt("Domestic Consumption")) /\ HasRow(t, Txt("Exports"))
    THEN SetRow(t, Txt("Total Use"),
                AddRows(t, Txt("Domestic Consumption"), Txt("Exports")))
    ELSE t

\* a Total Distribution recomputed from Total Use and Ending Stocks whether
\* or not the source has the row
WithTotalDistribution_Recomputed(t) ==
    IF HasRow(t, Txt("Total Use")) /\ HasRow(t, Txt("Ending Stocks"))
    THEN SetRow(t, Txt("Total Distribution"),
                AddRows(t, Txt("Total Use"), Txt("Ending Stocks")))
    ELSE t

\* Balance_Sheet.py:151-153
WithTotalDistribution(t) ==
    IF HasRow(t, Txt("Total Distribution")) THEN t
    ELSE IF HasRow(t, Txt("Total Use")) /\ HasRow(t, Txt("Ending Stocks"))
    THEN SetRow(t, Txt("Total Distribution"),
                AddRows(t, Txt("Total Use"), Txt("Ending Stocks")))
    ELSE t

\* the quotient (es / denom) * 100 as an exact fraction
Percent(es, denom) == [num |-> es * 100, den |-> denom]

\* the division without .replace(0, pd.NA): a zero denominator gives inf
StockToUseCell_ZeroKept(es, tu) ==
    IF es = None \/ tu = None THEN None ELSE Some(Percent(es[1], tu[1]))

\* denom = table.loc["Total Use"].replace(0, pd.NA);
\* (table.loc["Ending Stocks"] / denom) * 100
StockToUseCell(es, tu) ==
    LET denom == IF tu = Some(0) THEN None ELSE tu
    IN  IF es = None \/ denom = None THEN None
        ELSE Some(Percent(es[1], denom[1]))

\* Balance_Sheet.py:156-159
WithStockToUse(t) ==
    IF HasRow(t, Txt("Stock-to-Use (%)")) THEN t
    ELSE IF HasRow(t, Txt("Ending Stocks")) /\ HasRow(t, Txt("Total Use"))
    THEN SetRow(t, Txt("Stock-to-Use (%)"),
                [y \in ToSet(t.columns) |->
                    StockToUseCell(t.cells[Txt("Ending Stocks")][y],
                                   t.cells[Txt("Total Use")][y])])
    ELSE t

qty_rows == SelectSeq(ROW_ORDER, LAMBDA r : r # Txt("Stock-to-Use (%)"))

\* table.loc[idx] = table.loc[idx].fillna(0), idx the quantity rows present
FillQuantities(t) ==
    [index |-> t.index,
     columns |-> t.columns,
     cells |-> [a \in ToSet(t.index) |->
                   IF a \in ToSet(qty_rows)
                   THEN [y \in ToSet(t.columns) |->
                            IF t.cells[a][y] = None THEN Some(0)
                            ELSE t.cells[a][y]]
                   ELSE t.cells[a]]]

\* table.reindex(sorted(table.columns), axis=1).reindex(ROW_ORDER)
Reindex(t) ==
    [index |-> ROW_ORDER,
     columns |-> t.columns,
     cells |-> [a \in ToSet(ROW_ORDER) |->
                   IF HasRow(t, a) THEN t.cells[a]
                   ELSE [y \in ToSet(t.columns) |-> None]]]

---------------------------------------------------------------------------
(* The files the dashboard is run over *)

DashYears == <<2024, 2025>>

\* which years of an attribute the file has rows for
Coverage == {"absent", "all_years", "first_year"}

BalanceShapes ==
    [dom_cons   : {"absent", "all_years"},
     total_dom  : {"absent", "all_years"},
     food       : Coverage,
     industrial : {"absent", "all_years"},
     feed       : {"absent", "all_years"},
     exports    : Coverage,
     ending     : Coverage,
     total_use  : Coverage,
     total_dist : {"absent", "all_years"},
     scale      : {0, 1}]

SnapshotRow(country, attr, unit, year, month, value) ==
    [CommodityDescription |-> Some(<<"Oil,", " ", "Palm">>),
     CountryName |-> Some(country),
     MarketYear |-> Some(year), CalendarYear |-> Some(year),
     Month |-> Some(month),
     AttributeDescription |-> Some(Txt(attr)),
     UnitDescription |-> Some(unit),
     Value |-> Some(value)]

UnitedStates == <<"United", " ", "States">>

ThousandMT == <<"(1000", " ", "MT)">>

\* the rows of one attribute: `base` in the first year, scale * (base + 1)
\* in the second (scale 0: a year in which nothing was used or shipped)
AttributeRows(attr, coverage, base, scale) ==
    LET years == CASE coverage = "absent"     -> <<>>
                   [] coverage = "first_year" -> <<DashYears[1]>>
                   [] OTHER                   -> DashYears
    IN  [i \in 1..Len(years) |->
            SnapshotRow(UnitedStates, attr, ThousandMT, years[i], 1,
                        IF i = 1 THEN base ELSE scale * (base + 1))]

\* the exports of the first year come as two rows (two months)
ExportRows(coverage, scale) ==
    IF coverage = "absent" THEN <<>>
    ELSE << SnapshotRow(UnitedStates, "Exports", ThousandMT, DashYears[1], 1,
                        10),
            SnapshotRow(UnitedStates, "Exports", ThousandMT, DashYears[1], 2,
                        20) >>
         \o (IF coverage = "all_years"
             THEN << SnapshotRow(UnitedStates, "Exports", ThousandMT,
                                 DashYears[2], 1, scale * 31) >>
             ELSE <<>>)

BalanceRows(s) ==
    AttributeRows("Production", "all_years", 100, 1)
    \o AttributeRows("Domestic Consumption", s.dom_cons, 20, s.scale)
    \o AttributeRows("Total Dom. Cons.", s.total_dom, 20, s.scale)
    \o AttributeRows("Food Use Dom. Cons.", s.food, 10, s.scale)
    \o AttributeRows("Industrial Dom. Cons.", s.industrial, 5, s.scale)
    \o AttributeRows("Feed Dom. Cons.", s.feed, 5, s.scale)
    \o ExportRows(s.exports, s.scale)
    \o AttributeRows("Ending Stocks", s.ending, 20, 1)
    \o AttributeRows("Total Use", s.total_use, 50, s.scale)
    \o AttributeRows("Total Distribution", s.total_dist, 75, s.scale)
    \o << SnapshotRow(UnitedStates, "Area Harvested",
                      <<"(1000", " ", "HA)">>, DashYears[1], 1, 9),
          SnapshotRow(<<"Brazil">>, "Production", ThousandMT, DashYears[1],
                      1, 40) >>

SnapshotOf(s) == Some([complete |-> TRUE, data |-> Frame(REQ_COLS, BalanceRows(s))])

TypicalShape ==
    [dom_cons |-> "absent", total_dom |-> "absent", food |-> "all_years",
     industrial |-> "all_years", feed |-> "all_years", exports |-> "all_years",
     ending |-> "all_years", total_use |-> "absent", total_dist |-> "absent",
     scale |-> 1]

\* files that are not a snapshot of the current schema: none at all, one
\* still being written, one written without a column
BrokenFiles ==
    {None,
     Some([complete |-> FALSE, data |-> EmptyFrame]),
     Some([complete |-> TRUE,
           data |-> WithoutColumn(SnapshotOf(TypicalShape)[1].data,
                                  "MarketYear")]),
     Some([complete |-> TRUE,
           data |-> WithoutColumn(SnapshotOf(TypicalShape)[1].data,
                                  "CountryName")])}

InitDashboard ==
    /\ pc = "load_data"
    /\ page \in Pages
    /\ snapshot \in BrokenFiles \cup
           (IF page = "Balance_Sheet"
            THEN {SnapshotOf(s) : s \in BalanceShapes}
            ELSE {SnapshotOf(TypicalShape)})
    /\ prior_snapshot = snapshot
    /\ page_df = EmptyFrame
    /\ dff = EmptyFrame
    /\ table = EmptyTable
    /\ st_message = NoMessage
    /\ error = NoError
    /\ current_year = 2025
    /\ raw_data = EmptyFrame
    /\ clean_data = EmptyFrame
    /\ country_codes = EmptyFrame
    /\ commodity_codes = EmptyFrame
    /\ commodity_attributes = EmptyFrame
    /\ units_of_measure = EmptyFrame
    /\ agg_data = EmptyFrame
    /\ agg_again = EmptyFrame
    /\ perm_input = EmptyFrame
    /\ agg_perm = EmptyFrame
    /\ API_KEY = None
    /\ api_schema = "documented"
    /\ comm_codes_df = None
    /\ country_codes_df = None
    /\ commodity_attributes_df = None
    /\ units_of_measure_df = None
    /\ requests = <<>>
    /\ responses = <<>>
    /\ combined_data = <<>>
    /\ completed = 0
    /\ failed_requests = 0
    /\ printed = <<>>

\* what a page script leaves alone
run_vars ==
    <<current_year, raw_data, clean_data, handler_vars, main_vars>>

\* an exception nobody catches leaves the script: Streamlit shows the
\* traceback
Unhandled(e) ==
    /\ pc' = "unhandled_exception"
    /\ error' = e
    /\ st_message' = st_message

\* st.error(...) / st.warning(...) followed by st.stop()
Stop(msg) ==
    /\ pc' = "stopped"
    /\ st_message' = msg
    /\ error' = error

\* df = load_data() (streamlit_app.py:11-28, Balance_Sheet.py:9-55,
\* Chart_Builder.py:11-19)
LoadData ==
    /\ pc = "load_data"
    /\ LET r == ReadParquet(page, snapshot)
       IN  IF ~r.raised
           THEN /\ page_df' = r.df
                /\ pc' = "loaded"
                /\ UNCHANGED <<error, st_message>>
           ELSE /\ page_df' = page_df
                /\ IF CatchesLoadErrors(page)
                   THEN Stop(LoadErrorMessage(r.error))
                   ELSE Unhandled(r.error)
    /\ UNCHANGED <<page, dff, table, run_vars>>

\* the three selectboxes and the mask (Balance_Sheet.py:73-125)
BalanceSelect ==
    /\ pc = "loaded"
    /\ page = "Balance_Sheet"
    /\ IF Absent(page_df, <<"CountryName">>) # <<>>
       THEN Unhandled(KeyError(<<"CountryName">>)) /\ dff' = dff
       ELSE \E i \in 1..Len(page_df.rows) :
              LET country == page_df.rows[i]["CountryName"]
                  ptype   == page_df.rows[i]["ProductType"]
                  product == page_df.rows[i]["CommodityDescription"]
                  chosen  == SelectSeq(page_df.rows,
                                 LAMBDA r : /\ r["CountryName"] = country
                                            /\ r["ProductType"] = ptype
                                            /\ r["CommodityDescription"] = product
                                            /\ Contains1000MT(r["UnitDescription"]))
              IN  /\ dff' = Frame(page_df.columns, chosen)
                  /\ IF chosen = <<>>
                     THEN Stop(StWarning("No data found for this selection with UnitDescription containing '1000 MT'."))
                     ELSE pc' = "pivot" /\ UNCHANGED <<error, st_message>>
    /\ UNCHANGED <<page, page_df, table, run_vars>>

\* Balance_Sheet.py:128-131
BalancePivot ==
    /\ pc = "pivot"
    /\ table' = Pivot(dff)
    /\ pc' = "domestic_consumption"
    /\ UNCHANGED <<page, page_df, dff, st_message, error, run_vars>>

\* Balance_Sheet.py:134-141
DeriveDomesticConsumption ==
    /\ pc = "domestic_consumption"
    /\ table' = WithDomesticConsumption(table)
    /\ pc' = "total_use"
    /\ UNCHANGED <<page, page_df, dff, st_message, error, run_vars>>

\* Balance_Sheet.py:145-147
DeriveTotalUse ==
    /\ pc = "total_use"
    /\ table' = WithTotalUse(table)
    /\ pc' = "total_distribution"
    /\ UNCHANGED <<page, page_df, dff, st_message, error, run_vars>>

\* Balance_Sheet.py:151-153
DeriveTotalDistribution ==
    /\ pc = "total_distribution"
    /\ table' = WithTotalDistribution(table)
    /\ pc' = "stock_to_use"
    /\ UNCHANGED <<page, page_df, dff, st_message, error, run_vars>>

\* Balance_Sheet.py:156-159
DeriveStockToUse ==
    /\ pc = "stock_to_use"
    /\ table' = WithStockToUse(table)
    /\ pc' = "fillna"
    /\ UNCHANGED <<page, page_df, dff, st_message, error, run_vars>>

\* Balance_Sheet.py:162-163
FillNa ==
    /\ pc = "fillna"
    /\ table' = FillQuantities(table)
    /\ pc' = "reindex"
    /\ UNCHANGED <<page, page_df, dff, st_message, error, run_vars>>

\* Balance_Sheet.py:166-167
ReindexTable ==
    /\ pc = "reindex"
    /\ table' = Reindex(table)
    /\ pc' = "balance_table"
    /\ UNCHANGED <<page, page_df, dff, st_message, error, run_vars>>

NextDashboard ==
    \/ LoadData
    \/ BalanceSelect
    \/ BalancePivot
    \/ DeriveDomesticConsumption
    \/ DeriveTotalUse
    \/ DeriveTotalDistribution
    \/ DeriveStockToUse
    \/ FillNa
    \/ ReindexTable

SpecDashboard == InitDashboard /\ [][NextDashboard]_vars

---------------------------------------------------------------------------
(* SpecJoins: clean_usda_data applied to raw tables with and without rows   *)
(* and to reference tables of every shape a reference endpoint can serve    *)

\* the shapes of a reference table: the documented one, one that lists its
\* first code a second time, one with its columns and no rows, one without
\* its description column
ReferenceShapes == {"documented", "listed_twice", "no_rows", "no_name"}

Shaped(ref, name, shape) ==
    CASE shape = "listed_twice" -> Frame(ref.columns, ref.rows \o <<ref.rows[1]>>)
      [] shape = "no_rows"      -> Frame(ref.columns, <<>>)
      [] shape = "no_name"      -> WithoutColumn(ref, name)
      [] OTHER                  -> ref

\* observations that match every reference table, that name a country the
\* country table does not list, and that name another tracked commodity
JoinRows ==
    {BaseRow,
     [BaseRow EXCEPT !.countryCode = Some("ZZ")],
     [BaseRow EXCEPT !.commodityCode = Some("4244000"), !.value = Some(13)]}

\* pd.DataFrame([]), a table with the raw columns and no rows, and the
\* tables of 1..MaxRows observations
JoinTables ==
    {Frame(RawCols, <<>>)}
        \cup {DataFrameOf(rows) :
                 rows \in UNION {[1..n -> JoinRows] : n \in 0..MaxRows}}

InitJoins ==
    /\ pc = "input"
    /\ current_year = 2025
    /\ raw_data \in JoinTables
    /\ \E s \in ReferenceShapes :
          country_codes = Shaped(CountryRef, "countryName", s)
    /\ \E s \in ReferenceShapes :
          commodity_codes = Shaped(CommodityRef, "commodityName", s)
    /\ \E s \in ReferenceShapes :
          commodity_attributes = Shaped(AttributeRef, "attributeName", s)
    /\ \E s \in ReferenceShapes :
          units_of_measure = Shaped(UnitRef, "unitDescription", s)
    /\ clean_data = EmptyFrame
    /\ error = NoError
    /\ agg_data = EmptyFrame
    /\ agg_again = EmptyFrame
    /\ perm_input = EmptyFrame
    /\ agg_perm = EmptyFrame
    /\ API_KEY = None
    /\ api_schema = "documented"
    /\ responses = <<>>
    /\ printed = <<>>
    /\ page = "none"
    /\ page_df = EmptyFrame
    /\ dff = EmptyFrame
    /\ table = EmptyTable
    /\ st_message = NoMessage
    /\ comm_codes_df = None
    /\ country_codes_df = None
    /\ commodity_attributes_df = None
    /\ units_of_measure_df = None
    /\ requests = <<>>
    /\ combined_data = <<>>
    /\ completed = 0
    /\ failed_requests = 0
    /\ snapshot = None
    /\ prior_snapshot = None

NextJoins ==
    \/ CallClean

SpecJoins == InitJoins /\ [][NextJoins]_vars

---------------------------------------------------------------------------
(* Properties of clean_usda_data (checked under SpecHandler) *)

Rows(df) == {df.rows[i] : i \in 1..Len(df.rows)}

\* the text s is the text t padded with whitespace on either side
EqualUpToPadding(s, t) ==
    \E lo \in 1..(Len(s) + 1) : \E hi \in 0..Len(s) :
        /\ SubSeq(s, lo, hi) = t
        /\ \A i \in 1..Len(s) : (i < lo \/ i > hi) => s[i] \in Whitespace

NoOuterWhitespace(s) ==
    s = <<>> \/ (s[1] \notin Whitespace /\ s[Len(s)] \notin Whitespace)

\* the reference rows of frame ref whose key equals the raw row's
Matches(ref, key, r) == {m \in Rows(ref) : m[key] = r[key]}

\* the raw row r names a commodity whose reference name is a tracked
\* description up to padding, and a market year inside the window
KeptByFilters(r) ==
    /\ \E m \in Matches(commodity_codes, "commodityCode", r) :
          /\ m["commodityName"] # None
          /\ \E t \in ToSet(COMM_DESC) : EqualUpToPadding(m["commodityName"][1], t)
    /\ r["marketYear"] # None
    /\ r["marketYear"][1] >= current_year + 1 - 5

\* the cleaned row c carries the observation of the raw row r
SameObservation(c, r) ==
    /\ c["MarketYear"] = r["marketYear"]
    /\ c["CalendarYear"] = r["calendarYear"]
    /\ c["Month"] = r["month"]
    /\ c["Value"] = r["value"]

\* C1: every row clean_usda_data returns has its CommodityDescription in the
\* 14-entry tracked list COMM_DESC and its MarketYear >= currentYear + 1 - 5.
C1_TrackedAndInWindow ==
    pc = "cleaned" =>
        /\ Len(COMM_DESC) = 14
        /\ \A c \in Rows(clean_data) :
              /\ c["CommodityDescription"] # None
              /\ c["CommodityDescription"][1] \in ToSet(COMM_DESC)
              /\ c["MarketYear"] # None
              /\ c["MarketYear"][1] >= current_year + 1 - 5

\* a call that kept one row of two and filtered out the other, a tracked
\* commodity in the market year before the window
C1_Witness ==
    /\ pc = "cleaned"
    /\ Len(clean_data.rows) = 1
    /\ Len(raw_data.rows) = 2
    /\ \E r \in Rows(raw_data) :
          /\ r["commodityCode"] = Some("4243000")
          /\ r["marketYear"] = Some(current_year + 1 - 5 - 1)

\* C2: no row clean_usda_data returns has a null in any of the eight fields,
\* nor a text standing in for a missing description (the text 'nan').
C2_NoNullNoPlaceholder ==
    pc = "cleaned" =>
        \A c \in Rows(clean_data) : \A f \in ToSet(REQ_COLS) :
            /\ c[f] # None
            /\ f \in StrCols => c[f][1] # NanText

\* C3: a raw observation whose countryCode has no match in the country table
\* (and which the two filters keep) yields a returned row whose CountryName
\* is null.
C3_UnmatchedCountryIsNull ==
    pc = "cleaned" =>
        \A r \in Rows(raw_data) :
            (KeptByFilters(r) /\ Matches(country_codes, "countryCode", r) = {})
                => \E c \in Rows(clean_data) :
                      SameObservation(c, r) /\ c["CountryName"] = None

\* C4: no string field of a returned row has leading or trailing whitespace,
\* and a raw row whose commodity name equals a tracked description up to
\* surrounding whitespace (market year in the window) is retained under the
\* trimmed description.
C4_TrimmedBeforeFilter ==
    pc = "cleaned" =>
        /\ \A c \in Rows(clean_data) : \A f \in StrCols :
              c[f] # None /\ NoOuterWhitespace(c[f][1])
        /\ \A r \in Rows(raw_data) :
              \A m \in Matches(commodity_codes, "commodityCode", r) :
                  \A t \in ToSet(COMM_DESC) :
                      ( /\ m["commodityName"] # None
                        /\ EqualUpToPadding(m["commodityName"][1], t)
                        /\ r["marketYear"][1] >= current_year + 1 - 5 )
                      => \E c \in Rows(clean_data) :
                            /\ c["CommodityDescription"] = Some(t)
                            /\ SameObservation(c, r)

\* a returned row whose commodity, country, attribute and unit names were all
\* padded in the reference tables
C4_Witness ==
    /\ pc = "cleaned"
    /\ \E c \in Rows(clean_data) :
          /\ c["CommodityDescription"] = Some(<<"Oil,", " ", "Palm", " ", "Kernel">>)
          /\ c["CountryName"] = Some(<<"United", " ", "States">>)
          /\ c["AttributeDescription"] = Some(<<"Production">>)
          /\ c["UnitDescription"] = Some(<<"(1000", " ", "MT)">>)

---------------------------------------------------------------------------
(* Properties of aggregate_usda_data (checked under SpecHandler) *)

\* the six grouping fields of a row, as the claim lists them
Key6(row) ==
    <<row["CommodityDescription"], row["CountryName"], row["MarketYear"],
      row["Month"], row["UnitDescription"], row["AttributeDescription"]>>

\* the sum of Value over the rows of df at the positions in S; a missing
\* Value adds nothing
RECURSIVE SumAt(_, _)
SumAt(df, S) ==
    IF S = {} THEN 0
    ELSE LET i == CHOOSE x \in S : TRUE
             v == df.rows[i]["Value"]
         IN  (IF v = None THEN 0 ELSE v[1]) + SumAt(df, S \ {i})

PositionsOf(df, key) == {i \in 1..Len(df.rows) : Key6(df.rows[i]) = key}

\* C5: aggregate_usda_data returns exactly one row per distinct six-field
\* key of its input, whose Value is the sum of Value over the input rows
\* with that key; empty input gives empty output.
C5_OneRowPerKeySummed ==
    pc = "aggregated" =>
        /\ \A i, j \in 1..Len(agg_data.rows) :
              Key6(agg_data.rows[i]) = Key6(agg_data.rows[j]) => i = j
        /\ {Key6(a) : a \in Rows(agg_data)} = {Key6(c) : c \in Rows(clean_data)}
        /\ \A a \in Rows(agg_data) :
              a["Value"] = Some(SumAt(clean_data, PositionsOf(clean_data, Key6(a))))
        /\ clean_data.rows = <<>> => agg_data.rows = <<>>

\* two input rows with one key and the values 7 and 13 gave one row, 20
C5_Witness ==
    /\ pc = "aggregated"
    /\ Len(clean_data.rows) = 2
    /\ Key6(clean_data.rows[1]) = Key6(clean_data.rows[2])
    /\ {clean_data.rows[1]["Value"], clean_data.rows[2]["Value"]} = {Some(7), Some(13)}
    /\ Len(agg_data.rows) = 1
    /\ agg_data.rows[1]["Value"] = Some(20)

\* DataFrame.drop_duplicates(): each record once, first occurrence kept
RECURSIVE DropDuplicates(_)
DropDuplicates(rows) ==
    IF rows = <<>> THEN <<>>
    ELSE LET front == DropDuplicates(SubSeq(rows, 1, Len(rows) - 1))
             last  == rows[Len(rows)]
         IN  IF last \in ToSet(front) THEN front ELSE Append(front, last)

\* C6: an observation record delivered twice in the combined raw table is
\* counted once: cleaning and aggregating the table gives what cleaning and
\* aggregating it with each record kept once gives.
C6_NoDoubleCount ==
    pc = "aggregated" =>
        agg_data =
            aggregate_usda_data(
                clean_usda_data(DataFrameOf(DropDuplicates(raw_data.rows)),
                                country_codes, commodity_codes,
                                commodity_attributes, units_of_measure,
                                current_year).df)

\* C7: aggregating an aggregated table returns it unchanged.
C7_Idempotent ==
    pc = "reaggregated" =>
        /\ agg_again.rows = agg_data.rows
        /\ ToSet(agg_again.columns) = ToSet(agg_data.columns)

\* a second aggregation of a table that the first one had shrunk
C7_Witness ==
    /\ pc = "reaggregated"
    /\ agg_data.rows # <<>>
    /\ Len(agg_data.rows) < Len(clean_data.rows)

CountOf(df, row) == Cardinality({i \in 1..Len(df.rows) : df.rows[i] = row})

---------------------------------------------------------------------------
(* Properties of a run (checked under Spec) *)

ReferencePhase ==
    {"fetch_commodity_codes", "fetch_country_codes",
     "fetch_commodity_attributes", "fetch_units_of_measure"}

\* the reference frames fetched so far, by the position of main
FetchedReferences ==
    LET refs == <<comm_codes_df, country_codes_df, commodity_attributes_df,
                  units_of_measure_df>>
        n == Len(SelectSeq(requests, LAMBDA q : q.endpoint # "commodity"))
    IN  {refs[i] : i \in 1..n}

SeriesRequests == SelectSeq(requests, LAMBDA q : q.endpoint = "commodity")

\* C9: once a reference fetch has failed (None) or returned an empty table,
\* the run issues and combines no series request and never writes the
\* snapshot: it only finishes the reference fetches and then ends with the
\* reference-data error, the snapshot file being what the run found.
C9_ReferenceFailureAborts ==
    (\E d \in FetchedReferences : d = None \/ d[1].rows = <<>>) =>
        /\ pc \in ReferencePhase \cup {"validate", "failed", "aborted"}
        /\ pc = "failed" => error = ReferenceError
        /\ SeriesRequests = <<>>
        /\ combined_data = <<>>
        /\ snapshot = prior_snapshot

\* the country fetch alone failed and the run has ended, an earlier snapshot
\* file being in place
C9_Witness ==
    /\ pc = "failed"
    /\ country_codes_df = None
    /\ comm_codes_df = Some(CommodityRef)
    /\ commodity_attributes_df = Some(AttributeRef)
    /\ units_of_measure_df = Some(UnitRef)
    /\ prior_snapshot = OldSnapshot
    /\ snapshot = OldSnapshot

\* C10: with API_KEY unset (None) or empty, main ends with the
\* credential-missing error before any HTTP request is issued and before
\* the snapshot is written.
C10_MissingKeyFailsFirst ==
    (API_KEY = None \/ API_KEY = Some("")) =>
        /\ pc \in {"main", "failed", "aborted"}
        /\ pc = "failed" => error = CredentialError
        /\ requests = <<>>
        /\ snapshot = prior_snapshot

\* a run with an empty key that has ended with the credential error
C10_Witness ==
    /\ pc = "failed"
    /\ API_KEY = Some("")
    /\ error = CredentialError
    /\ requests = <<>>

\* the run is past cleaning: main has returned the cleaned table
Cleaned == pc \in {"to_parquet", "writing", "saved"}

\* C11: an empty dataset is fatal. A run whose combined raw table has no
\* observation ends with the no-data error and the snapshot untouched, and
\* a run whose cleaned table has no row never goes on to write the snapshot.
C11_EmptyDatasetIsFatal ==
    /\ (/\ completed = total_requests(current_year)
        /\ combined_data = <<>>
        /\ pc \notin {"get_combined_data", "aborted"})
           => (pc = "failed" /\ error = NoDataError
                  /\ snapshot = prior_snapshot)
    /\ Cleaned => clean_data.rows # <<>>

\* C12: the snapshot is replaced atomically. At every moment the file
\* data/latest.parquet is either the complete file the run found or the
\* complete new table, and a run stopped by its caller leaves the file as it
\* found it.
C12_AtomicOverwrite ==
    /\ \/ snapshot = prior_snapshot
       \/ /\ pc = "saved"
          /\ snapshot = Some([complete |-> TRUE, data |-> clean_data])
    /\ pc = "aborted" => snapshot = prior_snapshot

\* the records of the responses that were not failures, in request order
Succeeded == SelectSeq(responses, LAMBDA d : d # None)

ReturnedRecords == Flatten([k \in 1..Len(Succeeded) |-> Succeeded[k][1]])

\* C13: a failed series request is isolated. get_combined_data asks every
\* (product code, market year) pair in loop order whatever the earlier
\* requests returned, leaves the loop only after the last pair, and its
\* combined list is exactly the records of the requests that succeeded: a
\* failed pair adds nothing.
C13_SeriesFailuresIsolated ==
    LET asked == SeriesRequests
    IN  /\ Len(asked) = completed
        /\ Len(responses) = completed
        /\ \A k \in 1..completed :
               asked[k] =
                   SeriesRequest(PairOf(k - 1, current_year).code,
                                 PairOf(k - 1, current_year).year)
        /\ (completed > 0 /\ pc \notin {"get_combined_data", "aborted"})
               => completed = total_requests(current_year)
        /\ combined_data = ReturnedRecords

\* the first pair failed, every later pair was still asked, and the run went
\* on to save the records of the others
C13_Witness ==
    /\ pc = "saved"
    /\ completed = total_requests(current_year)
    /\ responses[1] = None
    /\ failed_requests = 1
    /\ Len(combined_data) >= 2
    /\ combined_data = ReturnedRecords

\* C14: failures are counted and reported. Once the loop of
\* get_combined_data is over with k > 0 failed requests, some line the run
\* has printed states the number k.
C14_FailureCountReported ==
    (/\ completed = total_requests(current_year)
     /\ pc \notin {"get_combined_data", "aborted"}
     /\ failed_requests > 0)
        => \E i \in 1..Len(printed) :
               failed_requests \in ToSet(printed[i].nums)

\* the canonical field that is absent after the joins and renames when the
\* API serves the given payload, and the column that should have supplied it
AbsentField ==
    [s \in {"commodities_no_name", "countries_no_name", "attributes_no_name",
            "units_no_name", "series_no_value"} |->
        CASE s = "commodities_no_name" -> "CommodityDescription"
          [] s = "countries_no_name"   -> "CountryName"
          [] s = "attributes_no_name"  -> "AttributeDescription"
          [] s = "units_no_name"       -> "UnitDescription"
          [] s = "series_no_value"     -> "Value"]

\* the exception of clean_usda_data for that payload
AbsentFieldError(s) ==
    IF s = "countries_no_name"
    THEN KeyError(<<"countryName">>)
    ELSE [type |-> "ValueError",
          message |-> "Missing required columns: {missing_cols}",
          names |-> <<AbsentField[s]>>]

\* main has called clean_usda_data and the call has ended
CleanCalled ==
    /\ raw_data.rows # <<>>
    /\ pc \in {"failed", "to_parquet", "writing", "saved"}

---------------------------------------------------------------------------
(* Properties of the dashboard pages (checked under SpecDashboard) *)

\* the file is there and complete, but its columns are not the eight of the
\* snapshot schema
SchemaMismatch ==
    /\ snapshot # None
    /\ snapshot[1].complete
    /\ snapshot[1].data.columns # REQ_COLS

\* C16: on every page, loading the snapshot when the file is absent or its
\* schema does not match ends in an st.error message and a stopped page,
\* never in an exception nobody handles.
C16_LoadFailureIsMessage ==
    ((snapshot = None \/ SchemaMismatch) /\ pc # "load_data") =>
        /\ pc = "stopped"
        /\ st_message.kind = "error"

RowDomCons == Txt("Domestic Consumption")

RowTotalDomCons == Txt("Total Dom. Cons.")

RowExports == Txt("Exports")

RowTotalUse == Txt("Total Use")

RowEndingStocks == Txt("Ending Stocks")

RowTotalDistribution == Txt("Total Distribution")

RowStockToUse == Txt("Stock-to-Use (%)")

\* the attribute x year table of the source rows the page selected
Source == Pivot(dff)

Years == ToSet(table.columns)

\* the table holds the derived rows and has not been filled yet
Derived == pc \in {"fillna"}

\* the table is the one the page shows
Final == pc = "balance_table"

\* a row as the fill step leaves it
Filled(row) == [y \in DOMAIN row |-> IF row[y] = None THEN Some(0) ELSE row[y]]

\* a row of the table at the present stage, given the row before the fill
AtStage(row) == IF Final THEN Filled(row) ELSE row

\* the value of a component in a year, zero when the source has none
PartValue(a, y) ==
    IF HasRow(Source, a) /\ Source.cells[a][y] # None
    THEN Source.cells[a][y][1] ELSE 0

PartsPresent == {a \in ToSet(DomConsParts) : HasRow(Source, a)}

\* C17: when the source has no "Domestic Consumption" row, the balance
\* table's Domestic Consumption is the source "Total Dom. Cons." row if
\* there is one; otherwise it is, year by year, the sum of the food-use,
\* industrial, feed-waste and feed components that are present, a missing
\* component counting as zero; with none of them present no row is derived.
C17_DomesticConsumption ==
    ((Derived \/ Final) /\ ~HasRow(Source, RowDomCons)) =>
        IF HasRow(Source, RowTotalDomCons)
        THEN /\ HasRow(table, RowDomCons)
             /\ table.cells[RowDomCons] = AtStage(Source.cells[RowTotalDomCons])
        ELSE IF PartsPresent # {}
        THEN /\ HasRow(table, RowDomCons)
             /\ \A y \in Years :
                   table.cells[RowDomCons][y] =
                       Some(PartValue(Txt("Food Use Dom. Cons."), y)
                            + PartValue(Txt("Industrial Dom. Cons."), y)
                            + PartValue(Txt("Feed Waste Dom. Cons."), y)
                            + PartValue(Txt("Feed Dom. Cons."), y))
        ELSE IF Final
        THEN \A y \in Years : table.cells[RowDomCons][y] = None
        ELSE ~HasRow(table, RowDomCons)

\* food use 10, industrial 5 and feed 5 in the first year, no consumption
\* total in the source: the table shows 20; in the second year the food-use
\* figure is missing and the sum is that of the two others
C17_Witness ==
    /\ Final
    /\ ~HasRow(Source, RowDomCons)
    /\ ~HasRow(Source, RowTotalDomCons)
    /\ Source.columns = DashYears
    /\ PartsPresent = {Txt("Food Use Dom. Cons."), Txt("Industrial Dom. Cons."),
                       Txt("Feed Dom. Cons.")}
    /\ Source.cells[Txt("Food Use Dom. Cons.")][DashYears[1]] = Some(10)
    /\ Source.cells[Txt("Food Use Dom. Cons.")][DashYears[2]] = None
    /\ Source.cells[Txt("Industrial Dom. Cons.")][DashYears[1]] = Some(5)
    /\ Source.cells[Txt("Feed Dom. Cons.")][DashYears[1]] = Some(5)
    /\ table.cells[RowDomCons][DashYears[1]] = Some(20)
    /\ table.cells[RowDomCons][DashYears[2]] = Some(12)

\* the sum of two cells of a year, missing when either is missing
Plus(x, y) == IF x = None \/ y = None THEN None ELSE Some(x[1] + y[1])

\* what the derivations are to produce before the fill, computed from the
\* source rows: << >> for no row, <<row>> for a row
SourceRow(a) == IF HasRow(Source, a) THEN Some(Source.cells[a]) ELSE None

PlusRows(r, q) == [y \in ToSet(Source.columns) |-> Plus(r[y], q[y])]

ExpectedDomCons ==
    IF HasRow(Source, RowDomCons) THEN SourceRow(RowDomCons)
    ELSE IF HasRow(Source, RowTotalDomCons) THEN SourceRow(RowTotalDomCons)
    ELSE IF PartsPresent # {}
    THEN Some([y \in ToSet(Source.columns) |->
                  Some(PartValue(Txt("Food Use Dom. Cons."), y)
                       + PartValue(Txt("Industrial Dom. Cons."), y)
                       + PartValue(Txt("Feed Waste Dom. Cons."), y)
                       + PartValue(Txt("Feed Dom. Cons."), y))])
    ELSE None

ExpectedTotalUse ==
    IF HasRow(Source, RowTotalUse) THEN SourceRow(RowTotalUse)
    ELSE IF ExpectedDomCons # None /\ HasRow(Source, RowExports)
    THEN Some(PlusRows(ExpectedDomCons[1], Source.cells[RowExports]))
    ELSE None

\* Total Use + Ending Stocks, when both are present
TotalUsePlusEndingStocks ==
    IF ExpectedTotalUse # None /\ HasRow(Source, RowEndingStocks)
    THEN Some(PlusRows(ExpectedTotalUse[1], Source.cells[RowEndingStocks]))
    ELSE None

ExpectedTotalDistribution ==
    IF HasRow(Source, RowTotalDistribution)
    THEN SourceRow(RowTotalDistribution)
    ELSE TotalUsePlusEndingStocks

\* the table's row `a` is the expected one: as derived before the fill,
\* filled in the final table; no expected row means no row before the fill
\* and an empty row in the final table
RowIs(a, expected) ==
    IF expected = None
    THEN IF Final THEN \A y \in Years : table.cells[a][y] = None
         ELSE ~HasRow(table, a)
    ELSE /\ HasRow(table, a)
         /\ table.cells[a] = AtStage(expected[1])

C19_StockToUse ==
    ((Derived \/ Final) /\ ExpectedTotalUse # None
        /\ HasRow(Source, RowEndingStocks)) =>
        /\ HasRow(table, RowStockToUse)
        /\ \A y \in Years :
              LET es == Source.cells[RowEndingStocks][y]
                  tu == ExpectedTotalUse[1][y]
              IN  IF es # None /\ tu # None /\ tu[1] # 0
                  THEN table.cells[RowStockToUse][y] =
                           Some([num |-> es[1] * 100, den |-> tu[1]])
                  ELSE table.cells[RowStockToUse][y] = None

\* the final table of a file with ending stocks 20 over a total use of 50 in
\* the first year (40 percent) and ending stocks 21 over a total use of zero
\* in the second, where the cell is undefined
C19_Witness ==
    /\ Final
    /\ Source.columns = DashYears
    /\ HasRow(Source, RowEndingStocks)
    /\ table.cells[RowEndingStocks] =
           [y \in ToSet(DashYears) |->
               IF y = DashYears[1] THEN Some(20) ELSE Some(21)]
    /\ ExpectedTotalUse # None
    /\ ExpectedTotalUse[1] =
           [y \in ToSet(DashYears) |->
               IF y = DashYears[1] THEN Some(50) ELSE Some(0)]
    /\ table.cells[RowStockToUse][DashYears[1]] # None
    /\ table.cells[RowStockToUse][DashYears[1]][1].num =
           40 * table.cells[RowStockToUse][DashYears[1]][1].den
    /\ table.cells[RowStockToUse][DashYears[2]] = None

\* the derived quantity rows of the table with what their derivation gave
\* before the fill: rows the source does not have
DerivedRows ==
    {r \in {<<RowDomCons, ExpectedDomCons>>, <<RowTotalUse, ExpectedTotalUse>>,
            <<RowTotalDistribution, ExpectedTotalDistribution>>} :
        ~HasRow(Source, r[1])}

\* C20: a derived quantity is never a fabricated zero. In the final table,
\* a derived row (Domestic Consumption, Total Use, Total Distribution) has
\* in every market year the value its derivation gave from the inputs of
\* that year, and no value where an input of that year is missing, 0
\* included; a row that could not be derived has no value at all.
C20_NoFabricatedZero ==
    Final =>
        \A r \in DerivedRows : \A y \in Years :
            table.cells[r[1]][y] = (IF r[2] = None THEN None ELSE r[2][1][y])

---------------------------------------------------------------------------
(* Properties of the joins of clean_usda_data (checked under SpecJoins) *)

\* C21: an empty raw table is a valid input. clean_usda_data on a raw table
\* with no rows returns, without raising, an empty table whose columns are
\* exactly the eight canonical fields, whatever the reference tables hold.
C21_EmptyRawIsValid ==
    (pc # "input" /\ raw_data.rows = <<>>) =>
        /\ pc # "raised"
        /\ error = NoError
        /\ Len(REQ_COLS) = 8
        /\ clean_data.columns = REQ_COLS
        /\ clean_data.rows = <<>>

\* the call returned for pd.DataFrame([]) although the country table has no
\* countryName column and the commodity table lists a code twice
C21_Witness ==
    /\ pc = "cleaned"
    /\ raw_data = EmptyFrame
    /\ "countryName" \notin ToSet(country_codes.columns)
    /\ Len(commodity_codes.rows) > Len(CommodityRef.rows)
    /\ clean_data = Frame(REQ_COLS, <<>>)

\* C23: the four joins never multiply rows. Whatever the reference tables
\* hold, a table listing the same code twice included, the table returned
\* has at most as many rows as the raw table.
C23_JoinsNeverMultiplyRows ==
    pc \in {"cleaned", "aggregated"} =>
        Len(clean_data.rows) <= Len(raw_data.rows)

---------------------------------------------------------------------------
(* Properties of the request loop (checked under Spec) *)

\* the market years minYear .. currentYear, minYear = currentYear + 1 - 5
WindowYears == (current_year + 1 - 5)..current_year

\* get_combined_data has returned
LoopOver ==
    \/ pc \in {"clean", "to_parquet", "writing", "saved"}
    \/ pc = "failed" /\ SeriesRequests # <<>>

\* C22: get_combined_data issues exactly one request for each pair of a
\* tracked commodity code and one of the 5 market years minYear ..
\* currentYear (14 x 5 = 70 for the full code list), its counter ends equal
\* to the total, and every requested year passes the cleaner's
\* MarketYear >= minYear filter: the years of the rows returned by the
\* cleaner are the years of the rows fetched.
C22_OneRequestPerPair ==
    LET asked == SeriesRequests
        pairs == {<<asked[k].code, asked[k].year>> : k \in 1..Len(asked)}
    IN  /\ Len(PROD_CODE) * Cardinality(WindowYears) = 70
        /\ Cardinality(pairs) = Len(asked)
        /\ \A k \in 1..Len(asked) :
               /\ asked[k].code \in ToSet(product_codes)
               /\ asked[k].year \in WindowYears
               /\ asked[k].year >= min_market_year(current_year)
        /\ LoopOver =>
               /\ pairs = ToSet(product_codes) \X WindowYears
               /\ Len(asked) = Len(product_codes) * 5
               /\ completed = Len(product_codes) * 5
               /\ completed = total_requests(current_year)
        /\ (Cleaned /\ api_schema = "documented") =>
               {c["MarketYear"] : c \in Rows(clean_data)}
                   = {r["marketYear"] : r \in Rows(raw_data)}

\* a run in which every pair was asked and answered, and the cleaner kept
\* the record of each of the five years of each code
C22_Witness ==
    /\ pc = "saved"
    /\ api_schema = "documented"
    /\ failed_requests = 0
    /\ completed = total_requests(current_year)
    /\ Len(raw_data.rows) = completed
    /\ Len(clean_data.rows) = completed
    /\ {c["MarketYear"][1] : c \in Rows(clean_data)} = WindowYears

=============================================================================
